---- MODULE Spec2Model ----
(***************************************************************************)
(* Grain algebra of the waveform editor (splitGrainIntoTwo, splitGrain,    *)
(* grainIndexesInView, whichGrainsToShow, isInGrain) and the removeTrack   *)
(* thunk.  Array indexes are the 0-based JavaScript indexes; At(arr, i)    *)
(* reads arr[i].                                                           *)
(***************************************************************************)
EXTENDS Integers, Sequences, FiniteSets

VARIABLES grains,        \* the track's current grain array
          initial,       \* the grain array the track was created with
          op,            \* name of the last function called
          input,         \* its arguments
          output,        \* its result
          searchMiss,    \* what divisionBinarySearch returns when no grain
                         \* holds the target: "sentinel" (-1) or "edge"
          trackList,     \* state.tracks.trackList, in trackIdArray order
          selectedTrack, \* state.tracks.selectedTrack
          dispatched,    \* actions dispatched by the last thunk run
          before         \* store state and argument the last thunk ran on

vars == <<grains, initial, op, input, output, searchMiss,
          trackList, selectedTrack, dispatched, before>>
grainVars == <<grains, initial, op, input, output, searchMiss>>
trackVars == <<trackList, selectedTrack, dispatched, before>>

\* ---------------------------------------------------------------- bounds
MaxSample == 4     \* small tracks have their cut points in 0..MaxSample
Margin == 1        \* split points and views reach this far past the track
MaxTracks == 4     \* track ids are 1..MaxTracks

\* ------------------------------------------------------- array helpers
At(arr, i) == arr[i + 1]
First(arr) == arr[1]
Last(arr) == arr[Len(arr)]

\* Array.prototype.slice(from, to) for 0 <= from, 0 <= to.
Slice(arr, from, to) ==
  LET hi == IF to > Len(arr) THEN Len(arr) ELSE to
  IN  IF from >= hi THEN <<>> ELSE SubSeq(arr, from + 1, hi)

\* Marker for a call that ended in a TypeError instead of returning an array.
TypeError == <<>>

\* ------------------------------------------------------------ isInGrain
isInGrain(target, grain) ==
  LET aboveStart == target >= grain.start
      belowEnd == target < grain.end
  IN  aboveStart /\ belowEnd

\* ------------------------------------------------- divisionBinarySearch
\* Three-way binary search over the contiguous grains.  What it returns when
\* no grain holds the target is left open: either the -1 sentinel or the index
\* of the grain at the edge the search ran into.
RECURSIVE divisionSearchLoop(_, _, _, _)
divisionSearchLoop(target, arr, lo, hi) ==
  IF lo > hi
  THEN IF searchMiss = "sentinel" THEN -1
       ELSE IF lo > Len(arr) - 1 THEN Len(arr) - 1 ELSE lo
  ELSE LET mid == (lo + hi) \div 2
           g == At(arr, mid)
       IN  IF target < g.start THEN divisionSearchLoop(target, arr, lo, mid - 1)
           ELSE IF target >= g.end THEN divisionSearchLoop(target, arr, mid + 1, hi)
           ELSE mid

\* upperBound is <<>> when the optional argument is omitted, <<n>> otherwise.
divisionBinarySearch(target, arr, upperBound) ==
  IF Len(upperBound) > 0 /\ target >= upperBound[1] THEN -1
  ELSE divisionSearchLoop(target, arr, 0, Len(arr) - 1)

\* ---------------------------------------------------- splitGrainIntoTwo
\* Variants of splitGrainIntoTwo with one slip each.
splitGrainIntoTwo_gap(grain, splitPoint) ==
  IF splitPoint <= grain.start \/ splitPoint >= grain.end - 1
  THEN <<grain>>
  ELSE <<[grain EXCEPT !.start = grain.start, !.end = splitPoint],
         [grain EXCEPT !.start = splitPoint + 1, !.end = grain.end]>>

splitGrainIntoTwo_lowStrict(grain, splitPoint) ==
  IF splitPoint < grain.start \/ splitPoint >= grain.end - 1
  THEN <<grain>>
  ELSE <<[grain EXCEPT !.start = grain.start, !.end = splitPoint],
         [grain EXCEPT !.start = splitPoint, !.end = grain.end]>>

splitGrainIntoTwo_highAtEnd(grain, splitPoint) ==
  IF splitPoint <= grain.start \/ splitPoint >= grain.end
  THEN <<grain>>
  ELSE <<[grain EXCEPT !.start = grain.start, !.end = splitPoint],
         [grain EXCEPT !.start = splitPoint, !.end = grain.end]>>

splitGrainIntoTwo(grain, splitPoint) ==
  LET pointTooLow == splitPoint <= grain.start
      pointTooHigh == splitPoint >= grain.end - 1
      leftStart == grain.start
      leftEnd == splitPoint
      rightStart == splitPoint
      rightEnd == grain.end
      leftGrain == [grain EXCEPT !.start = leftStart, !.end = leftEnd]
      rightGrain == [grain EXCEPT !.start = rightStart, !.end = rightEnd]
  IN  IF pointTooLow \/ pointTooHigh THEN <<grain>>
      ELSE <<leftGrain, rightGrain>>

\* ----------------------------------------------------------- splitGrain
\* Variant of splitGrain whose right side starts at the target grain.
splitGrain_keepsTarget(arr, splitPoint) ==
  LET lastGrainIndex == Len(arr) - 1
      targetGrainIndex == divisionBinarySearch(splitPoint, arr, <<>>)
  IN  IF splitPoint <= At(arr, 0).start
         \/ splitPoint >= At(arr, lastGrainIndex).end - 1
      THEN arr
      ELSE IF targetGrainIndex = -1 THEN TypeError
      ELSE Slice(arr, 0, targetGrainIndex)
           \o splitGrainIntoTwo(At(arr, targetGrainIndex), splitPoint)
           \o Slice(arr, targetGrainIndex, lastGrainIndex + 1)

splitGrain(arr, splitPoint) ==
  LET firstSample == At(arr, 0).start
      lastGrainIndex == Len(arr) - 1
      lastSample == At(arr, lastGrainIndex).end - 1
      pointTooLow == splitPoint <= firstSample
      pointTooHigh == splitPoint >= lastSample
      targetGrainIndex == divisionBinarySearch(splitPoint, arr, <<>>)
  IN  IF pointTooLow \/ pointTooHigh THEN arr
      \* grains.slice(-1, 0)[0] is undefined and splitGrainIntoTwo reads
      \* its start
      ELSE IF targetGrainIndex = -1 THEN TypeError
      ELSE LET leftSide == Slice(arr, 0, targetGrainIndex)
               rightSide == Slice(arr, targetGrainIndex + 1, lastGrainIndex + 1)
               targetGrain == Slice(arr, targetGrainIndex, targetGrainIndex + 1)[1]
               splitGrains == splitGrainIntoTwo(targetGrain, splitPoint)
           IN  leftSide \o splitGrains \o rightSide

\* ------------------------------------------------------- view functions
grainIndexesInView(arr, view) ==
  LET lastIndex == Len(arr) - 1
      trackLength == At(arr, lastIndex).end
      startIndex == divisionBinarySearch(view.start, arr, <<trackLength>>)
      endIndexFromSearch == divisionBinarySearch(view.end, arr, <<trackLength>>)
      endIndex == IF endIndexFromSearch = -1 THEN lastIndex
                  ELSE endIndexFromSearch
  IN  [startIndex |-> startIndex, endIndex |-> endIndex]

createFillerGrain(start, end, more) ==
  [start |-> start, end |-> end, more |-> more, filler |-> TRUE]

\* The result of whichGrainsToShow: threw is TRUE when reading a property of
\* grains[startIndex] or grains[endIndex] raised a TypeError.
whichGrainsToShow(arr, view) ==
  LET idx == grainIndexesInView(arr, view)
      startIndex == idx.startIndex
      endIndex == idx.endIndex
      lastGrainIndex == Len(arr) - 1
      defined(i) == i >= 0 /\ i <= lastGrainIndex
  IN  IF ~defined(startIndex) \/ ~defined(endIndex)
      THEN [threw |-> TRUE, grains |-> <<>>]
      ELSE LET firstGrainToShow == At(arr, startIndex)
               moreStart == startIndex # 0
               startFiller == createFillerGrain(view.start,
                                                firstGrainToShow.start, moreStart)
               lastGrainToShow == At(arr, endIndex)
               moreEnd == lastGrainIndex # endIndex
               endFiller == createFillerGrain(lastGrainToShow.end, view.end,
                                              moreEnd)
               grainsToInclude == Slice(arr, startIndex, endIndex + 1)
           IN  [threw |-> FALSE,
                grains |-> <<startFiller>> \o grainsToInclude \o <<endFiller>>]

\* ---------------------------------------------------------- removeTrack
\* The value read from an array index that holds nothing.
Undefined == 0

clamp(value, low, high) ==
  LET atLeast == IF value < low THEN low ELSE value
  IN  IF atLeast > high THEN high ELSE atLeast

\* Array.prototype.indexOf
indexOf(arr, x) ==
  IF \E i \in 1..Len(arr) : arr[i] = x
  THEN (CHOOSE i \in 1..Len(arr) :
          arr[i] = x /\ \A j \in 1..(i - 1) : arr[j] # x) - 1
  ELSE -1

\* Array.prototype.filter(id => trackId !== id)
RECURSIVE filterOut(_, _)
filterOut(arr, x) ==
  IF arr = <<>> THEN <<>>
  ELSE IF Head(arr) = x THEN filterOut(Tail(arr), x)
  ELSE <<Head(arr)>> \o filterOut(Tail(arr), x)

\* trackIdArray(state): the ids of the track list, in order.
trackIdArray(list) == [i \in 1..Len(list) |-> list[i].id]

\* trackList[id]
trackOf(list, id) == (CHOOSE i \in 1..Len(list) : list[i].id = id)

removeTrackSimple(newTrackList) ==
  [type |-> "REMOVE_TRACK", payload |-> newTrackList]

selectTrack(id) == [type |-> "SELECT_TRACK", payload |-> id]

\* The actions the thunk dispatches, in order.
removeTrack(list, selected, trackId) ==
  LET trackIds == trackIdArray(list)
      filteredIds == filterOut(trackIds, trackId)
      newTrackList == [i \in 1..Len(filteredIds) |->
                         list[trackOf(list, filteredIds[i])]]
      trackListLength == Len(trackIds)
      oldMaxIndex == trackListLength - 1
      newMaxIndex == oldMaxIndex - 1
      removedTrackIndex == indexOf(trackIds, trackId)
      nextTrackIdIndex == clamp(removedTrackIndex, 0, newMaxIndex)
      nextTrack == IF nextTrackIdIndex >= 0 /\ nextTrackIdIndex < Len(filteredIds)
                   THEN At(filteredIds, nextTrackIdIndex)
                   ELSE Undefined
  IN  IF trackId = selected
      THEN <<removeTrackSimple(newTrackList), selectTrack(nextTrack)>>
      ELSE <<removeTrackSimple(newTrackList)>>

\* ------------------------------------------------------- initial states
RECURSIVE sorted(_)
sorted(S) ==
  IF S = {} THEN <<>>
  ELSE LET m == CHOOSE x \in S : \A y \in S : x <= y
       IN  <<m>> \o sorted(S \ {m})

\* The grain array with the given cut points; every grain carries its
\* original start as metadata.
grainsOver(cuts) ==
  LET s == sorted(cuts)
  IN  [i \in 1..(Len(s) - 1) |->
         [start |-> s[i], end |-> s[i + 1], meta |-> s[i]]]

SmallTracks == {grainsOver(cuts) : cuts \in {c \in SUBSET (0..MaxSample) :
                                               Cardinality(c) >= 2}}

ScenarioGrains == grainsOver({0, 10, 20, 30})

NoOutput == [threw |-> FALSE, grains |-> <<>>, other |-> <<>>,
             startIndex |-> 0, endIndex |-> 0]

TracksIdle ==
  /\ trackList = <<>>
  /\ selectedTrack = Undefined
  /\ dispatched = <<>>
  /\ before = [trackList |-> <<>>, selectedTrack |-> Undefined,
               trackId |-> Undefined]

GrainsStart(arr) ==
  /\ grains = arr
  /\ initial = arr
  /\ op = "init"
  /\ input = [grains |-> arr, x |-> 0, y |-> 0]
  /\ output = NoOutput

Init ==
  /\ searchMiss \in {"edge", "sentinel"}
  /\ \E arr \in SmallTracks \cup {ScenarioGrains} : GrainsStart(arr)
  /\ TracksIdle

TrackLists ==
  {s \in UNION {[1..n -> 1..MaxTracks] : n \in 0..MaxTracks} :
     \A i, j \in DOMAIN s : i # j => s[i] # s[j]}

TracksInit ==
  /\ searchMiss = "sentinel"
  /\ GrainsStart(grainsOver({0, 1}))
  /\ \E ids \in TrackLists :
       /\ trackList = [i \in 1..Len(ids) |-> [id |-> ids[i], track |-> 100 + ids[i]]]
       /\ \E sel \in {ids[i] : i \in 1..Len(ids)} \cup {Undefined} :
            /\ selectedTrack = sel
            /\ before = [trackList |-> trackList, selectedTrack |-> sel,
                         trackId |-> Undefined]
  /\ dispatched = <<>>

\* -------------------------------------------------------------- actions
\* Split points and view edges offered to the track: every sample from Margin
\* before the track to Margin after it; multiples of five from -5 to 35 for
\* the three-grain track of 30 samples.
Points ==
  IF initial = ScenarioGrains THEN {5 * k : k \in -1..7}
  ELSE (First(initial).start - Margin)..(Last(initial).end + Margin)

\* The editing layer replaces the track's grains by splitGrain's result.
SplitGrainAt(p) ==
  /\ grains' = splitGrain(grains, p)
  /\ op' = "splitGrain"
  /\ input' = [grains |-> grains, x |-> p, y |-> 0]
  /\ output' = [NoOutput EXCEPT !.grains = grains']
  /\ UNCHANGED <<initial, searchMiss, trackVars>>

SplitOne(i, p) ==
  /\ op' = "splitGrainIntoTwo"
  /\ input' = [grains |-> <<At(grains, i)>>, x |-> p, y |-> 0]
  /\ output' = [NoOutput EXCEPT !.grains = splitGrainIntoTwo(At(grains, i), p)]
  /\ UNCHANGED <<grains, initial, searchMiss, trackVars>>

\* Two cuts, applied in both orders.
SplitTwice(p, q) ==
  /\ op' = "splitTwice"
  /\ input' = [grains |-> grains, x |-> p, y |-> q]
  /\ output' = [NoOutput EXCEPT
                  !.grains = splitGrain(splitGrain(grains, p), q),
                  !.other = splitGrain(splitGrain(grains, q), p)]
  /\ UNCHANGED <<grains, initial, searchMiss, trackVars>>

Show(s, e) ==
  /\ s < e
  /\ op' = "whichGrainsToShow"
  /\ input' = [grains |-> grains, x |-> s, y |-> e]
  /\ LET view == [start |-> s, end |-> e]
         idx == grainIndexesInView(grains, view)
         shown == whichGrainsToShow(grains, view)
     IN  output' = [NoOutput EXCEPT !.threw = shown.threw,
                                    !.grains = shown.grains,
                                    !.startIndex = idx.startIndex,
                                    !.endIndex = idx.endIndex]
  /\ UNCHANGED <<grains, initial, searchMiss, trackVars>>

\* The thunk run against the store: REMOVE_TRACK swaps in its payload as the
\* track list, SELECT_TRACK sets the selected track.
RemoveTrack(trackId) ==
  LET acts == removeTrack(trackList, selectedTrack, trackId)
  IN  /\ dispatched' = acts
      /\ before' = [trackList |-> trackList, selectedTrack |-> selectedTrack,
                    trackId |-> trackId]
      /\ trackList' = acts[1].payload
      /\ selectedTrack' = IF Len(acts) > 1 THEN acts[2].payload
                          ELSE selectedTrack
      /\ UNCHANGED grainVars

Next ==
  \/ \E p \in Points : SplitGrainAt(p)
  \/ \E i \in 0..(Len(grains) - 1), p \in Points : SplitOne(i, p)
  \/ \E p, q \in Points : SplitTwice(p, q)
  \/ \E s, e \in Points : Show(s, e)

Spec == Init /\ [][Next]_vars

TracksNext == \E trackId \in 1..MaxTracks : RemoveTrack(trackId)

SpecTracks == TracksInit /\ [][TracksNext]_vars

\* ------------------------------------------------------------ properties
ValidSequence(arr) ==
  /\ Len(arr) >= 1
  /\ \A i \in 1..Len(arr) : arr[i].start < arr[i].end
  /\ \A i \in 1..(Len(arr) - 1) : arr[i].end = arr[i + 1].start

IsFiller(g) == "filler" \in DOMAIN g /\ g.filler

\* Some grain of arr starts at p.
IsCutPoint(arr, p) == \E i \in 1..Len(arr) : arr[i].start = p

\* C1: after any number of splitGrain calls at arbitrary points the track's
\* grains are still a valid sequence (non-empty, every grain start < end,
\* adjacent grains touching) and span the same [first.start, last.end) as the
\* sequence the track started with.
C1_InvariantPreserved ==
  /\ ValidSequence(grains)
  /\ First(grains).start = First(initial).start
  /\ Last(grains).end = Last(initial).end

\* C1 witness: at least two cuts have been made in the track.
C1_Witness == op = "splitGrain" /\ Len(grains) >= Len(initial) + 2

\* C3: after splitGrain at a point p strictly inside the track that was not a
\* grain boundary, a second splitGrain at p returns the sequence unchanged.
C3_SplitIdempotent ==
  (/\ op = "splitGrain"
   /\ First(input.grains).start < input.x
   /\ input.x < Last(input.grains).end
   /\ ~IsCutPoint(input.grains, input.x))
  => splitGrain(output.grains, input.x) = output.grains

\* C3 witness: a split at such a point that did cut a grain.
C3_Witness ==
  /\ op = "splitGrain"
  /\ First(input.grains).start < input.x
  /\ input.x < Last(input.grains).end
  /\ ~IsCutPoint(input.grains, input.x)
  /\ Len(output.grains) = Len(input.grains) + 1

\* C4: splitGrainIntoTwo(g, p) returns [g] exactly when p <= g.start or
\* p >= g.end - 1; otherwise it returns two grains [g.start, p) and
\* [p, g.end) that have g's fields and g's value in every field other than
\* start and end.
C4_SplitOne ==
  op = "splitGrainIntoTwo" =>
    LET g == input.grains[1]
        p == input.x
        R == output.grains
        edge == p <= g.start \/ p >= g.end - 1
        keeps(h) == /\ DOMAIN h = DOMAIN g
                    /\ \A f \in DOMAIN g \ {"start", "end"} : h[f] = g[f]
    IN  /\ edge <=> (R = <<g>>)
        /\ ~edge => /\ Len(R) = 2
                    /\ R[1].start = g.start /\ R[1].end = p
                    /\ R[2].start = p /\ R[2].end = g.end
                    /\ keeps(R[1]) /\ keeps(R[2])

\* C4 witness: a call that produced two grains.
C4_Witness == op = "splitGrainIntoTwo" /\ Len(output.grains) = 2

\* C5: splitGrain(grains, p) is before ++ splitGrainIntoTwo(target, p) ++ after
\* for the grain target that contains p, with before and after the untouched
\* grains on either side; with no grain containing p the result is the input.
\* The result has n or n + 1 grains, and cutting the three-grain track of 30
\* samples at 15 gives [0,10) [10,15) [15,20) [20,30).
C5_SplitFrame ==
  op = "splitGrain" =>
    LET G == input.grains
        p == input.x
        R == output.grains
        n == Len(G)
    IN  /\ \A i \in 1..n :
             isInGrain(p, G[i]) =>
               R = SubSeq(G, 1, i - 1) \o splitGrainIntoTwo(G[i], p)
                   \o SubSeq(G, i + 1, n)
        /\ (\A i \in 1..n : ~isInGrain(p, G[i])) => R = G
        /\ Len(R) \in {n, n + 1}
        /\ (G = ScenarioGrains /\ p = 15) =>
             R = <<[start |-> 0, end |-> 10, meta |-> 0],
                   [start |-> 10, end |-> 15, meta |-> 10],
                   [start |-> 15, end |-> 20, meta |-> 10],
                   [start |-> 20, end |-> 30, meta |-> 20]>>

\* C5 witness: the three-grain track has been cut at 15.
C5_Witness ==
  /\ op = "splitGrain"
  /\ input.grains = ScenarioGrains
  /\ input.x = 15
  /\ Len(output.grains) = 4

\* C6: splitGrain at a point p inside the sequence's range
\* (first.start <= p < last.end) that is not the start of any grain returns
\* one grain more than it was given, and p starts a grain of the result.
C6_SplitsInsideRange ==
  (/\ op = "splitGrain"
   /\ First(input.grains).start <= input.x
   /\ input.x < Last(input.grains).end
   /\ ~IsCutPoint(input.grains, input.x))
  => /\ Len(output.grains) = Len(input.grains) + 1
     /\ IsCutPoint(output.grains, input.x)

\* C9: two cuts give the same grain sequence in either order.
C9_SplitsCommute == op = "splitTwice" => output.grains = output.other

\* C2: for a view inside the track bounds whichGrainsToShow returns a start
\* filler, the real grains from startIndex to endIndex in their order, and an
\* end filler; the elements chain from view.start to view.end, each with
\* start <= end, and the only fillers are the first and the last element.
C2_ViewCoverage ==
  (/\ op = "whichGrainsToShow"
   /\ First(input.grains).start <= input.x
   /\ input.y <= Last(input.grains).end)
  => /\ ~output.threw
     /\ LET R == output.grains
            n == Len(R)
        IN  /\ n >= 2
            /\ R[1].start = input.x
            /\ R[n].end = input.y
            /\ \A i \in 1..(n - 1) : R[i].end = R[i + 1].start
            /\ \A i \in 1..n : R[i].start <= R[i].end
            /\ SubSeq(R, 2, n - 1)
                 = Slice(input.grains, output.startIndex, output.endIndex + 1)
            /\ \A i \in 1..n : IsFiller(R[i]) <=> i \in {1, n}

\* C7: for every view grainIndexesInView returns startIndex and endIndex
\* inside the sequence and whichGrainsToShow reads no index outside it.
C7_IndexesInRange ==
  op = "whichGrainsToShow" =>
    /\ output.startIndex \in 0..(Len(input.grains) - 1)
    /\ output.endIndex \in 0..(Len(input.grains) - 1)
    /\ ~output.threw

\* C8: the view from -5 to 25 over the three-grain track of 30 samples shows
\* the start filler [-5, 0) with more false, grains 0 to 2, and an end filler
\* that ends at 25 with more true.
C8_ScenarioView ==
  (/\ op = "whichGrainsToShow"
   /\ input.grains = ScenarioGrains
   /\ input.x = -5
   /\ input.y = 25)
  => /\ ~output.threw
     /\ Len(output.grains) = 5
     /\ output.grains[1]
          = [start |-> -5, end |-> 0, more |-> FALSE, filler |-> TRUE]
     /\ SubSeq(output.grains, 2, 4) = ScenarioGrains
     /\ IsFiller(output.grains[5])
     /\ output.grains[5].end = 25
     /\ output.grains[5].more

\* C10: removing a track of the list dispatches REMOVE_TRACK with the other
\* tracks in their order and, only when the removed track was the selected
\* one, then dispatches selectTrack once with an id of the new list.
C10_RemoveTrack ==
  (/\ dispatched # <<>>
   /\ \E i \in 1..Len(before.trackList) :
        before.trackList[i].id = before.trackId)
  => LET keep(t) == t.id # before.trackId
         rest == SelectSeq(before.trackList, keep)
     IN  /\ dispatched[1] = [type |-> "REMOVE_TRACK", payload |-> rest]
         /\ IF before.trackId = before.selectedTrack
            THEN /\ Len(dispatched) = 2
                 /\ dispatched[2].type = "SELECT_TRACK"
                 /\ \E i \in 1..Len(rest) : rest[i].id = dispatched[2].payload
            ELSE Len(dispatched) = 1

====
